---- MODULE Spec2Model ----
(***************************************************************************)
(* Task manager: the sqlite store (Tasks, Tags, TaskTags), the GraphQL     *)
(* tasks query, the REST handlers POST /tasks, PUT /tasks/:id and          *)
(* DELETE /tasks/:id, and the React client that calls them.                *)
(*                                                                         *)
(* Strings are sequences of one-character strings, so that LIKE, split     *)
(* and trim are computed character by character.  The Japanese seed texts  *)
(* are abbreviated to short ASCII sequences.                               *)
(***************************************************************************)
EXTENDS Integers, Sequences, FiniteSets, TLC

\* Number of requests / client events of one behaviour.
MaxOps == 2
\* Number of requests the server handles at the same time.
NProcs == 2

----------------------------------------------------------------------------
\* JavaScript values

\* null / undefined in a string position
NULL == <<"NULL">>
\* a request body whose tags field is missing (Array.isArray(tags) is false)
NotArray == << <<"NOTARRAY">> >>
\* due_date NULL; sqlite orders NULL before every text value
NullDate == -1
\* due_date '' (an empty date input of the client forms)
EmptyDate == 0

Range(s) == {s[i] : i \in 1..Len(s)}

\* JavaScript truthiness of a string-or-null value: if (q), x || null
Truthy(s) == s # NULL /\ s # <<>>

----------------------------------------------------------------------------
\* sqlite LIKE: % any run, _ any one character, ASCII letters fold case

Lower(c) == CASE c = "A" -> "a" [] c = "K" -> "k" [] c = "S" -> "s" [] OTHER -> c

RECURSIVE Like(_, _)
Like(s, p) ==
  IF p = <<>> THEN s = <<>>
  ELSE IF Head(p) = "%"
       THEN Like(s, Tail(p)) \/ (s # <<>> /\ Like(Tail(s), p))
       ELSE /\ s # <<>>
            /\ (Head(p) = "_" \/ Lower(Head(p)) = Lower(Head(s)))
            /\ Like(Tail(s), Tail(p))

\* column LIKE '%q%'; a NULL column never matches
OpLike(col, q) == col # NULL /\ Like(col, <<"%">> \o q \o <<"%">>)

----------------------------------------------------------------------------
\* The store

VARIABLES
  db,           \* the sqlite database: Tasks, Tags, TaskTags and the two rowid sequences
  req,          \* the request the server handled last
  res,          \* the response to it
  ops,          \* requests and client events so far
  tasks,        \* client: useState<Task[]> -- the list fetched last
  searchQuery,  \* client: useState('')
  searchTag,    \* client: useState('')
  procs,        \* requests in flight, one record per connection
  gql,          \* the GraphQL request handled last and data.tasks of its response
  deleted       \* history: the DELETE requests answered, each with the ids given out by then

vars == <<db, req, res, ops, tasks, searchQuery, searchTag, procs, gql, deleted>>

\* init(): sync({force: true}), five tasks, four tags, four associations
SeedTasks ==
  (1 :> [title |-> <<"g">>, description |-> <<"s", "u">>, due_date |-> 21,
         location |-> <<"k", "s">>, status |-> "pending"]) @@
  (2 :> [title |-> <<"r">>, description |-> <<"a">>, due_date |-> 26,
         location |-> <<"d">>, status |-> "completed"]) @@
  (3 :> [title |-> <<"n">>, description |-> <<"k">>, due_date |-> 22,
         location |-> <<"c">>, status |-> "pending"]) @@
  (4 :> [title |-> <<"t">>, description |-> <<"g">>, due_date |-> 22,
         location |-> <<"t">>, status |-> "pending"]) @@
  (5 :> [title |-> <<"h">>, description |-> <<"y">>, due_date |-> 24,
         location |-> <<"e">>, status |-> "pending"])

SeedTags ==
  { [id |-> 1, name |-> <<"k">>], [id |-> 2, name |-> <<"j">>],
    [id |-> 3, name |-> <<"d">>], [id |-> 4, name |-> <<"h">>] }

SeedTaskTags == { <<1, 1>>, <<1, 2>>, <<2, 3>>, <<3, 4>> }

SeedDb ==
  [Tasks |-> SeedTasks, Tags |-> SeedTags, TaskTags |-> SeedTaskTags,
   seqTask |-> 5, seqTag |-> 4]

\* the Tag rows associated with a task (task.getTags())
TagsOf(d, id) == {t \in d.Tags : <<id, t.id>> \in d.TaskTags}

\* the names of the tags associated with a task
TagNamesOf(d, id) == {t.name : t \in TagsOf(d, id)}

----------------------------------------------------------------------------
\* GraphQL query tasks(q, tag)

\* ORDER BY due_date ASC; rows of equal due_date in rowid order
RECURSIVE OrderByDueDate(_, _)
OrderByDueDate(d, S) ==
  IF S = {} THEN <<>>
  ELSE LET first == CHOOSE i \in S : \A j \in S :
                      \/ d.Tasks[i].due_date < d.Tasks[j].due_date
                      \/ (d.Tasks[i].due_date = d.Tasks[j].due_date /\ i <= j)
       IN <<first>> \o OrderByDueDate(d, S \ {first})

\* Tag rows as the list of {name} objects of a response, in rowid order
RECURSIVE TagRows(_)
TagRows(T) ==
  IF T = {} THEN <<>>
  ELSE LET first == CHOOSE t \in T : \A u \in T : t.id <= u.id
       IN <<[name |-> first.name]>> \o TagRows(T \ {first})

\* the Tag rows Task.findAll loads with a task: the include's where filters them
IncludedTags(d, id, tag) ==
  IF Truthy(tag) THEN {t \in TagsOf(d, id) : t.name = tag} ELSE TagsOf(d, id)

\* parent.Tags of a Task instance loaded without its Tag rows
Undefined == <<[undefined |-> TRUE]>>

\* the Task instance Task.findAll builds for a row: include puts the Tag rows
\* loaded by the same statement into Tags, an empty array when there are none
FindAllInclude(d, id, tag) == [Tags |-> TagRows(IncludedTags(d, id, tag))]

\* TaskType.tags.resolve: parent.Tags is always an array, so getTags() is never called
TaskTypeTags(parent) == parent.Tags

\* a truthiness under which the empty array counts as missing
TagsLoaded_NonEmpty(parent) == parent.Tags # Undefined /\ parent.Tags # <<>>

\* parent.Tags || ...: every array is truthy, the empty one too
TagsLoaded(parent) == parent.Tags # Undefined

\* the store statements TaskType.tags.resolve issues for one task: parent.getTags()
\* when parent.Tags is not there
TaskTypeTagsFetches(parent) == IF TagsLoaded(parent) THEN 0 ELSE 1

\* RootQuery.tasks.resolve and the field resolvers of TaskType
TasksResolve(d, q, tag) ==
  LET whereClause(id) ==
        Truthy(q) => \/ OpLike(d.Tasks[id].title, q)
                     \/ OpLike(d.Tasks[id].description, q)
                     \/ OpLike(d.Tasks[id].location, q)
      required(id) == Truthy(tag) => IncludedTags(d, id, tag) # {}
      found == {id \in DOMAIN d.Tasks : whereClause(id) /\ required(id)}
      order == OrderByDueDate(d, found)
      parent(id) == FindAllInclude(d, id, tag)
  IN [i \in 1..Len(order) |->
        [id |-> order[i],
         title |-> d.Tasks[order[i]].title,
         due_date |-> d.Tasks[order[i]].due_date,
         description |-> d.Tasks[order[i]].description,
         location |-> d.Tasks[order[i]].location,
         status |-> d.Tasks[order[i]].status,
         tags |-> TaskTypeTags(parent(order[i]))]]

\* the store statements of one tasks query: the one Task.findAll, and what the tags
\* resolver issues for each task returned
RECURSIVE SumFetches(_, _, _)
SumFetches(d, ids, tag) ==
  IF ids = <<>> THEN 0
  ELSE TaskTypeTagsFetches(FindAllInclude(d, Head(ids), tag))
       + SumFetches(d, Tail(ids), tag)

TasksRoundTrips(d, q, tag) ==
  LET result == TasksResolve(d, q, tag)
  IN 1 + SumFetches(d, [i \in 1..Len(result) |-> result[i].id], tag)

----------------------------------------------------------------------------
\* Sequelize model operations, one store statement each

\* rowid without AUTOINCREMENT: one more than the largest id among the rows left
NextTaskId_MaxRowid(d) ==
  IF DOMAIN d.Tasks = {} THEN 1
  ELSE (CHOOSE i \in DOMAIN d.Tasks : \A j \in DOMAIN d.Tasks : j <= i) + 1

\* AUTOINCREMENT: the next Task id comes from sqlite_sequence, never from the rows left
NextTaskId(d) == d.seqTask + 1

\* Task.create({title, description, due_date, location}): allowNull: false rejects a
\* missing title (the empty string passes); status takes its default
TaskCreate(d, body) ==
  IF body.title = NULL
  THEN [ok |-> FALSE, db |-> d, id |-> 0]
  ELSE LET id == NextTaskId(d)
           row == [title |-> body.title, description |-> body.description,
                   due_date |-> body.due_date, location |-> body.location,
                   status |-> "pending"]
       IN [ok |-> TRUE, id |-> id,
           db |-> [d EXCEPT !.Tasks = (id :> row) @@ d.Tasks, !.seqTask = id]]

\* a lookup that never misses: the handler goes on without its 404
TaskFindByPk_Always(d, id) == TRUE

\* Task.findByPk(id)
TaskFindByPk(d, id) == id \in DOMAIN d.Tasks

\* task.set({title, description, status, due_date, location}); task.save():
\* validation as in create, then UPDATE ... WHERE id (no row, nothing updated)
TaskSave(d, id, body) ==
  IF body.title = NULL
  THEN [ok |-> FALSE, db |-> d]
  ELSE LET row == [title |-> body.title, description |-> body.description,
                   due_date |-> body.due_date, location |-> body.location,
                   status |-> body.status]
       IN [ok |-> TRUE,
           db |-> IF id \in DOMAIN d.Tasks
                  THEN [d EXCEPT !.Tasks = [d.Tasks EXCEPT ![id] = row]]
                  ELSE d]

\* Task.destroy({where: {id}}): the TaskTags rows of the task go with it
TaskDestroy(d, id) ==
  [d EXCEPT !.Tasks = [i \in DOMAIN d.Tasks \ {id} |-> d.Tasks[i]],
            !.TaskTags = {p \in d.TaskTags : p[1] # id}]

\* SELECT ... FROM Tags WHERE name = :name
TagFind(d, name) == {t \in d.Tags : t.name = name}

\* INSERT INTO Tags: name is NOT NULL and UNIQUE
TagInsert(d, name) ==
  IF name = NULL \/ TagFind(d, name) # {}
  THEN [ok |-> FALSE, db |-> d, tag |-> 0]
  ELSE LET id == d.seqTag + 1
       IN [ok |-> TRUE, tag |-> id,
           db |-> [d EXCEPT !.Tags = d.Tags \cup {[id |-> id, name |-> name]},
                            !.seqTag = id]]

\* Tag.findOrCreate({where: {name}}) with no other request in between
TagFindOrCreate(d, name) ==
  IF TagFind(d, name) # {}
  THEN [ok |-> TRUE, db |-> d, tag |-> (CHOOSE t \in TagFind(d, name) : TRUE).id]
  ELSE TagInsert(d, name)

\* SELECT ... FROM TaskTags WHERE TaskId = :id AND TagId = :tag
TaskHasTag(d, id, tag) == <<id, tag>> \in d.TaskTags

\* INSERT INTO TaskTags: (TaskId, TagId) is the primary key and TaskId references Tasks
TaskTagInsert(d, id, tag) ==
  IF id \notin DOMAIN d.Tasks \/ <<id, tag>> \in d.TaskTags
  THEN [ok |-> FALSE, db |-> d]
  ELSE [ok |-> TRUE, db |-> [d EXCEPT !.TaskTags = d.TaskTags \cup {<<id, tag>>}]]

\* an addTag that stores no association
TaskAddTag_Skip(d, id, tag) == [ok |-> TRUE, db |-> d]

\* task.addTag(tag): the pair is inserted unless the select finds it
TaskAddTag(d, id, tag) ==
  IF TaskHasTag(d, id, tag) THEN [ok |-> TRUE, db |-> d] ELSE TaskTagInsert(d, id, tag)

\* SELECT TagId FROM TaskTags WHERE TaskId = :id
TaskTagsSelect(d, id) == {p[2] : p \in {r \in d.TaskTags : r[1] = id}}

\* a delete that removes no association
TaskTagsDelete_Keep(d, id, tagIds) == d

\* DELETE FROM TaskTags WHERE TaskId = :id AND TagId IN (:tagIds)
TaskTagsDelete(d, id, tagIds) ==
  [d EXCEPT !.TaskTags = {p \in d.TaskTags : ~(p[1] = id /\ p[2] \in tagIds)}]

\* an update that keeps the old associations
TaskSetTagsEmpty_Noop(d, id) == d

\* task.setTags([]): the associations selected are deleted
TaskSetTagsEmpty(d, id) == TaskTagsDelete(d, id, TaskTagsSelect(d, id))

----------------------------------------------------------------------------
\* REST handlers, each run from request to response

Response(status, error, id) == [status |-> status, error |-> error, id |-> id]

\* for (const tagName of tags) { findOrCreate; addTag }
RECURSIVE TagLoop(_, _, _)
TagLoop(d, id, names) ==
  IF names = <<>> THEN [ok |-> TRUE, db |-> d]
  ELSE LET foc == TagFindOrCreate(d, Head(names))
       IN IF ~foc.ok THEN [ok |-> FALSE, db |-> foc.db]
          ELSE LET add == TaskAddTag(foc.db, id, foc.tag)
               IN IF ~add.ok THEN [ok |-> FALSE, db |-> add.db]
                  ELSE TagLoop(add.db, id, Tail(names))

\* app.post('/tasks')
PostTasks(d, body) ==
  LET created == TaskCreate(d, body)
      loop == IF body.tags = NotArray
              THEN [ok |-> TRUE, db |-> created.db]
              ELSE TagLoop(created.db, created.id, body.tags)
  IN IF ~created.ok
     THEN [db |-> d, res |-> Response(500, "Create failed", 0)]
     ELSE IF ~loop.ok
     THEN [db |-> loop.db, res |-> Response(500, "Create failed", 0)]
     ELSE [db |-> loop.db, res |-> Response(200, "", created.id)]

\* app.put('/tasks/:id')
PutTasks(d, id, body) ==
  LET saved == TaskSave(d, id, body)
      loop == IF body.tags = NotArray
              THEN [ok |-> TRUE, db |-> saved.db]
              ELSE TagLoop(TaskSetTagsEmpty(saved.db, id), id, body.tags)
  IN IF ~TaskFindByPk(d, id)
     THEN [db |-> d, res |-> Response(404, "Not found", 0)]
     ELSE IF ~saved.ok
     THEN [db |-> d, res |-> Response(500, "Update failed", 0)]
     ELSE IF ~loop.ok
     THEN [db |-> loop.db, res |-> Response(500, "Update failed", 0)]
     ELSE [db |-> loop.db, res |-> Response(200, "", id)]

\* app.delete('/tasks/:id')
DeleteTasks(d, id) ==
  [db |-> TaskDestroy(d, id), res |-> Response(200, "Deleted", 0)]

----------------------------------------------------------------------------
\* Request bodies

TagA == <<"k">>
TagB == <<"x">>
TagC == <<"j">>

TagLists == { NotArray, <<>>, <<TagA, TagB>>, <<TagB, TagC>>, <<TagB, TagB>>,
              <<TagB, NULL>> }

BaseBody ==
  [title |-> <<"a">>, description |-> <<"S">>, due_date |-> 22,
   location |-> <<"k">>, status |-> "completed", tags |-> <<TagA, TagB>>]

\* the base body and the bodies that differ from it in one part
Bodies ==
  {[BaseBody EXCEPT !.title = t] : t \in {<<"a">>, <<>>, NULL}}
  \cup {[BaseBody EXCEPT !.status = s] : s \in {"pending", "completed", "archived"}}
  \cup {[BaseBody EXCEPT !.tags = l] : l \in TagLists}
  \cup {[BaseBody EXCEPT !.description = NULL, !.due_date = NullDate,
                         !.location = NULL]}

\* the ids a request can name: every id given out so far and the next one
Ids(d) == 1..(d.seqTask + 1)

NoRequest == [op |-> "none", id |-> 0, body |-> BaseBody]

\* a connection with no request on it
Idle ==
  [op |-> "none", pc |-> "idle", id |-> 0, body |-> BaseBody, names |-> <<>>,
   tag |-> 0, seen |-> {}, res |-> Response(0, "", 0), raced |-> FALSE]

----------------------------------------------------------------------------
\* Requests to the REST API by any caller, one at a time

Init ==
  /\ db = SeedDb
  /\ req = NoRequest
  /\ res = Response(0, "", 0)
  /\ ops = 0
  /\ tasks = TasksResolve(SeedDb, NULL, NULL)
  /\ searchQuery = <<>>
  /\ searchTag = <<>>
  /\ procs = [p \in 1..NProcs |-> Idle]
  /\ gql = [q |-> NULL, tag |-> NULL, tasks |-> <<>>, roundTrips |-> 0]
  /\ deleted = {}

Post ==
  \E body \in Bodies :
    /\ ops < MaxOps
    /\ db' = PostTasks(db, body).db
    /\ res' = PostTasks(db, body).res
    /\ req' = [op |-> "POST", id |-> 0, body |-> body]
    /\ ops' = ops + 1
    /\ UNCHANGED <<tasks, searchQuery, searchTag, procs, gql, deleted>>

Put ==
  \E id \in Ids(db), body \in Bodies :
    /\ ops < MaxOps
    /\ db' = PutTasks(db, id, body).db
    /\ res' = PutTasks(db, id, body).res
    /\ req' = [op |-> "PUT", id |-> id, body |-> body]
    /\ ops' = ops + 1
    /\ UNCHANGED <<tasks, searchQuery, searchTag, procs, gql, deleted>>

Delete ==
  \E id \in Ids(db) :
    /\ ops < MaxOps
    /\ db' = DeleteTasks(db, id).db
    /\ res' = DeleteTasks(db, id).res
    /\ req' = [op |-> "DELETE", id |-> id, body |-> BaseBody]
    /\ deleted' = deleted \cup {[id |-> id, seqTask |-> db.seqTask]}
    /\ ops' = ops + 1
    /\ UNCHANGED <<tasks, searchQuery, searchTag, procs, gql>>

\* the arguments of a tasks query
QueryTexts == {NULL, <<>>, <<"S">>, <<"%">>}
QueryTags == {NULL, <<>>, <<"k">>, <<"x">>}

\* POST /graphql: query { tasks(q, tag) {...} }
Graphql ==
  \E q \in QueryTexts, tag \in QueryTags :
    /\ ops < MaxOps
    /\ gql' = [q |-> q, tag |-> tag, tasks |-> TasksResolve(db, q, tag),
               roundTrips |-> TasksRoundTrips(db, q, tag)]
    /\ req' = [op |-> "QUERY", id |-> 0, body |-> BaseBody]
    /\ res' = Response(200, "", 0)
    /\ ops' = ops + 1
    /\ UNCHANGED <<db, tasks, searchQuery, searchTag, procs, deleted>>

Next == Post \/ Put \/ Delete \/ Graphql

Spec == Init /\ [][Next]_vars

----------------------------------------------------------------------------
\* The client (App)

OrNull(str) == IF Truthy(str) THEN str ELSE NULL

\* fetchTasksGraphQL: variables {q: searchQuery || null, tag: searchTag || null}
FetchTasksGraphQL(d, q, tag) == TasksResolve(d, OrNull(q), OrNull(tag))

\* str.split(',')
RECURSIVE SplitComma(_, _)
SplitComma(str, part) ==
  IF str = <<>> THEN <<part>>
  ELSE IF Head(str) = "," THEN <<part>> \o SplitComma(Tail(str), <<>>)
  ELSE SplitComma(Tail(str), Append(part, Head(str)))

\* s.trim()
RECURSIVE TrimStart(_)
TrimStart(str) ==
  IF str # <<>> /\ Head(str) = " " THEN TrimStart(Tail(str)) ELSE str

RECURSIVE TrimEnd(_)
TrimEnd(str) ==
  IF str # <<>> /\ str[Len(str)] = " "
  THEN TrimEnd(SubSeq(str, 1, Len(str) - 1)) ELSE str

Trim(str) == TrimEnd(TrimStart(str))

NonEmpty(str) == Len(str) > 0

\* parseTags
ParseTags(str) ==
  LET parts == SplitComma(str, <<>>)
  IN SelectSeq([i \in 1..Len(parts) |-> Trim(parts[i])], NonEmpty)

\* task.tags.map(t => t.name)
TagNames(tagRows) == [i \in 1..Len(tagRows) |-> tagRows[i].name]

\* names.join(', ')
RECURSIVE Join(_)
Join(names) ==
  IF names = <<>> THEN <<>>
  ELSE IF Len(names) = 1 THEN names[1]
  ELSE names[1] \o <<",", " ">> \o Join(Tail(names))

\* startEdit: the edit form filled from the task shown
StartEdit(task) ==
  [title |-> task.title,
   description |-> IF Truthy(task.description) THEN task.description ELSE <<>>,
   due_date |-> IF task.due_date = NullDate THEN EmptyDate ELSE task.due_date,
   location |-> IF Truthy(task.location) THEN task.location ELSE <<>>,
   tagsStr |-> Join(TagNames(task.tags))]

\* the texts a user types into the tags input
TagsStrs == { <<>>, <<"k", ",", " ", "x">>, <<" ", "x", ",", ",", "x", " ">> }

\* the create form as the user may have filled it
NewTaskForms ==
  { [title |-> t, description |-> <<>>, due_date |-> dd, location |-> <<>>,
     tagsStr |-> ts] : t \in {<<>>, <<"a">>}, dd \in {EmptyDate, 22}, ts \in TagsStrs }

\* the edit form: as startEdit filled it, or with the title or the tags retyped
EditForms(task) ==
  {StartEdit(task)}
  \cup {[StartEdit(task) EXCEPT !.title = t] : t \in {<<>>, <<"a">>}}
  \cup {[StartEdit(task) EXCEPT !.tagsStr = ts] : ts \in TagsStrs}

\* the body handleUpdate puts
UpdateBody(form, currentStatus) ==
  [title |-> form.title, description |-> form.description,
   due_date |-> form.due_date, location |-> form.location,
   status |-> currentStatus, tags |-> ParseTags(form.tagsStr)]

\* the body handleCreate posts (the handler reads no status from it)
CreateBody(form) == UpdateBody(form, "pending")

\* the body toggleStatus puts
ToggleBody(task) ==
  [title |-> task.title, description |-> task.description,
   due_date |-> task.due_date, location |-> task.location,
   status |-> IF task.status = "completed" THEN "pending" ELSE "completed",
   tags |-> TagNames(task.tags)]

\* what a client handler leaves behind once the server has answered: the list is
\* fetched again unless axios rejected the response
AfterRequest(request, out) ==
  /\ req' = request
  /\ res' = out.res
  /\ db' = out.db
  /\ tasks' = IF out.res.status = 200
              THEN FetchTasksGraphQL(out.db, searchQuery, searchTag)
              ELSE tasks
  /\ deleted' = IF request.op = "DELETE"
                THEN deleted \cup {[id |-> request.id, seqTask |-> db.seqTask]}
                ELSE deleted
  /\ ops' = ops + 1
  /\ UNCHANGED <<searchQuery, searchTag, procs, gql>>

\* the user fills the search inputs and clicks Search
Search ==
  \E q \in {<<>>, <<"S">>, <<"%">>}, tag \in {<<>>, <<"k">>, <<"x">>} :
    /\ ops < MaxOps
    /\ searchQuery' = q
    /\ searchTag' = tag
    /\ tasks' = FetchTasksGraphQL(db, q, tag)
    /\ ops' = ops + 1
    /\ UNCHANGED <<db, req, res, procs, gql, deleted>>

\* the user clicks a tag of a task shown: setSearchTag(tag.name), no fetch
ClickTag ==
  \E i \in 1..Len(tasks) : \E j \in 1..Len(tasks[i].tags) :
    /\ ops < MaxOps
    /\ searchTag' = tasks[i].tags[j].name
    /\ ops' = ops + 1
    /\ UNCHANGED <<db, req, res, tasks, searchQuery, procs, gql, deleted>>

\* the Clear button, shown while a filter is set
ClearSearch ==
  /\ ops < MaxOps
  /\ Truthy(searchQuery) \/ Truthy(searchTag)
  /\ searchQuery' = <<>>
  /\ searchTag' = <<>>
  /\ ops' = ops + 1
  /\ UNCHANGED <<db, req, res, tasks, procs, gql, deleted>>

HandleCreate ==
  \E form \in NewTaskForms :
    /\ ops < MaxOps
    /\ IF ~Truthy(form.title)
       THEN /\ ops' = ops + 1
            /\ UNCHANGED <<db, req, res, tasks, searchQuery, searchTag, procs, gql, deleted>>
       ELSE AfterRequest([op |-> "POST", id |-> 0, body |-> CreateBody(form)],
                         PostTasks(db, CreateBody(form)))

HandleUpdate ==
  \E i \in 1..Len(tasks) : \E form \in EditForms(tasks[i]) :
    /\ ops < MaxOps
    /\ AfterRequest([op |-> "PUT", id |-> tasks[i].id,
                     body |-> UpdateBody(form, tasks[i].status)],
                    PutTasks(db, tasks[i].id, UpdateBody(form, tasks[i].status)))

toggleStatus(i) ==
  /\ ops < MaxOps
  /\ AfterRequest([op |-> "PUT", id |-> tasks[i].id, body |-> ToggleBody(tasks[i])],
                  PutTasks(db, tasks[i].id, ToggleBody(tasks[i])))

ToggleStatus == \E i \in 1..Len(tasks) : toggleStatus(i)

HandleDelete ==
  \E i \in 1..Len(tasks) :
    /\ ops < MaxOps
    /\ AfterRequest([op |-> "DELETE", id |-> tasks[i].id, body |-> BaseBody],
                    DeleteTasks(db, tasks[i].id))

NextClient ==
  \/ Search
  \/ ClickTag
  \/ ClearSearch
  \/ HandleCreate
  \/ HandleUpdate
  \/ ToggleStatus
  \/ HandleDelete

SpecClient == Init /\ [][NextClient]_vars

----------------------------------------------------------------------------
\* Requests handled concurrently: every await of a handler is a step, and the
\* steps of the requests in flight interleave

ConcTagLists == { <<TagB>>, <<TagA, TagB>>, <<TagB, TagC>> }
ConcBodies == {[BaseBody EXCEPT !.tags = l] : l \in ConcTagLists}
ConcIds == {1, 6}

\* res.json(task)
Done(pr, id) == [pr EXCEPT !.pc = "done", !.res = Response(200, "", id)]

\* catch (e) { res.status(500).json({error}) }
Failed(pr) ==
  [pr EXCEPT !.pc = "done",
             !.res = Response(500, IF pr.op = "POST" THEN "Create failed"
                                   ELSE "Update failed", 0)]

\* the tag loop goes on with the names left, or the handler responds
LoopFrom(pr, names) ==
  IF names = <<>> THEN Done(pr, pr.id)
  ELSE [pr EXCEPT !.pc = "find", !.names = names]

StartPost(p) ==
  \E body \in ConcBodies :
    /\ procs[p].pc = "idle"
    /\ procs' = [procs EXCEPT ![p] = [Idle EXCEPT !.op = "POST", !.pc = "create",
                                                  !.body = body]]
    /\ UNCHANGED <<db, req, res, ops, tasks, searchQuery, searchTag, gql, deleted>>

StartPut(p) ==
  \E id \in ConcIds, body \in ConcBodies :
    /\ procs[p].pc = "idle"
    /\ procs' = [procs EXCEPT ![p] = [Idle EXCEPT !.op = "PUT", !.pc = "findByPk",
                                                  !.id = id, !.body = body]]
    /\ UNCHANGED <<db, req, res, ops, tasks, searchQuery, searchTag, gql, deleted>>

\* await Task.create(...)
StepCreate(p) ==
  LET pr == procs[p]
      created == TaskCreate(db, pr.body)
  IN /\ pr.pc = "create"
     /\ db' = created.db
     /\ procs' = [procs EXCEPT ![p] =
          IF ~created.ok THEN Failed(pr)
          ELSE IF pr.body.tags = NotArray THEN Done(pr, created.id)
          ELSE LoopFrom([pr EXCEPT !.id = created.id], pr.body.tags)]
     /\ UNCHANGED <<req, res, ops, tasks, searchQuery, searchTag, gql, deleted>>

\* await Task.findByPk(req.params.id)
StepFindByPk(p) ==
  LET pr == procs[p]
  IN /\ pr.pc = "findByPk"
     /\ procs' = [procs EXCEPT ![p] =
          IF TaskFindByPk(db, pr.id) THEN [pr EXCEPT !.pc = "save"]
          ELSE [pr EXCEPT !.pc = "done", !.res = Response(404, "Not found", 0)]]
     /\ UNCHANGED <<db, req, res, ops, tasks, searchQuery, searchTag, gql, deleted>>

\* await task.save()
StepSave(p) ==
  LET pr == procs[p]
      saved == TaskSave(db, pr.id, pr.body)
  IN /\ pr.pc = "save"
     /\ db' = saved.db
     /\ procs' = [procs EXCEPT ![p] =
          IF ~saved.ok THEN Failed(pr)
          ELSE IF pr.body.tags = NotArray THEN Done(pr, pr.id)
          ELSE [pr EXCEPT !.pc = "setTagsSelect"]]
     /\ UNCHANGED <<req, res, ops, tasks, searchQuery, searchTag, gql, deleted>>

\* await task.setTags([]), its select
StepSetTagsSelect(p) ==
  LET pr == procs[p]
  IN /\ pr.pc = "setTagsSelect"
     /\ procs' = [procs EXCEPT ![p] =
          [pr EXCEPT !.pc = "setTagsDelete", !.seen = TaskTagsSelect(db, pr.id)]]
     /\ UNCHANGED <<db, req, res, ops, tasks, searchQuery, searchTag, gql, deleted>>

\* await task.setTags([]), its delete
StepSetTagsDelete(p) ==
  LET pr == procs[p]
  IN /\ pr.pc = "setTagsDelete"
     /\ db' = TaskTagsDelete(db, pr.id, pr.seen)
     /\ procs' = [procs EXCEPT ![p] = LoopFrom(pr, pr.body.tags)]
     /\ UNCHANGED <<req, res, ops, tasks, searchQuery, searchTag, gql, deleted>>

\* await Tag.findOrCreate(...), its select
StepFind(p) ==
  LET pr == procs[p]
      found == TagFind(db, Head(pr.names))
  IN /\ pr.pc = "find"
     /\ procs' = [procs EXCEPT ![p] =
          IF found = {} THEN [pr EXCEPT !.pc = "insert"]
          ELSE [pr EXCEPT !.pc = "hasTag", !.tag = (CHOOSE t \in found : TRUE).id]]
     /\ UNCHANGED <<db, req, res, ops, tasks, searchQuery, searchTag, gql, deleted>>

\* await Tag.findOrCreate(...), its insert when no other request inserted the
\* name since the select
StepInsert(p) ==
  LET pr == procs[p]
      inserted == TagInsert(db, Head(pr.names))
  IN /\ pr.pc = "insert"
     /\ Head(pr.names) = NULL \/ inserted.ok
     /\ db' = inserted.db
     /\ procs' = [procs EXCEPT ![p] =
          IF inserted.ok THEN [pr EXCEPT !.pc = "hasTag", !.tag = inserted.tag]
          ELSE Failed(pr)]
     /\ UNCHANGED <<req, res, ops, tasks, searchQuery, searchTag, gql, deleted>>

\* await Tag.findOrCreate(...), its insert when another request inserted the name
\* since the select: the insert is refused; on sqlite findOrCreate then either
\* selects the row again or throws (TimeoutError), which the handler's catch
\* answers with 500
StepInsertRaced(p) ==
  LET pr == procs[p]
      found == TagFind(db, Head(pr.names))
  IN /\ pr.pc = "insert"
     /\ Head(pr.names) # NULL
     /\ ~TagInsert(db, Head(pr.names)).ok
     /\ \/ procs' = [procs EXCEPT ![p] =
             [pr EXCEPT !.pc = "hasTag", !.raced = TRUE,
                        !.tag = (CHOOSE t \in found : TRUE).id]]
        \/ procs' = [procs EXCEPT ![p] = Failed([pr EXCEPT !.raced = TRUE])]
     /\ UNCHANGED <<db, req, res, ops, tasks, searchQuery, searchTag, gql, deleted>>

\* await task.addTag(tag), its select
StepHasTag(p) ==
  LET pr == procs[p]
  IN /\ pr.pc = "hasTag"
     /\ procs' = [procs EXCEPT ![p] =
          IF TaskHasTag(db, pr.id, pr.tag) THEN LoopFrom(pr, Tail(pr.names))
          ELSE [pr EXCEPT !.pc = "addTag"]]
     /\ UNCHANGED <<db, req, res, ops, tasks, searchQuery, searchTag, gql, deleted>>

\* await task.addTag(tag), its insert
StepAddTag(p) ==
  LET pr == procs[p]
      added == TaskTagInsert(db, pr.id, pr.tag)
  IN /\ pr.pc = "addTag"
     /\ db' = added.db
     /\ procs' = [procs EXCEPT ![p] =
          IF added.ok THEN LoopFrom(pr, Tail(pr.names)) ELSE Failed(pr)]
     /\ UNCHANGED <<req, res, ops, tasks, searchQuery, searchTag, gql, deleted>>

NextConc ==
  \E p \in 1..NProcs :
    \/ StartPost(p)
    \/ StartPut(p)
    \/ StepCreate(p)
    \/ StepFindByPk(p)
    \/ StepSave(p)
    \/ StepSetTagsSelect(p)
    \/ StepSetTagsDelete(p)
    \/ StepFind(p)
    \/ StepInsert(p)
    \/ StepInsertRaced(p)
    \/ StepHasTag(p)
    \/ StepAddTag(p)

SpecConc == Init /\ [][NextConc]_vars

----------------------------------------------------------------------------
\* Properties

\* the ids of the tasks a query returned
ResultIds(result) == {result[i].id : i \in 1..Len(result)}

\* C1: a tasks query with a tag filter returns each matching task with all the
\* tag names the task is associated with, not only the filter's.
C1_TagQueryReturnsAllTags ==
  (req.op = "QUERY" /\ Truthy(gql.tag)) =>
    \A i \in 1..Len(gql.tasks) :
      Range(TagNames(gql.tasks[i].tags)) = TagNamesOf(db, gql.tasks[i].id)

\* C2: toggling the status of a task of the list shown leaves the task's title,
\* description, due_date, location and associated tags as they were, whatever
\* filter the list was fetched with.
C2_ToggleChangesOnlyStatus ==
  [][\A i \in 1..Len(tasks) :
       (toggleStatus(i) /\ tasks[i].id \in DOMAIN db.Tasks) =>
         LET id == tasks[i].id
         IN /\ id \in DOMAIN db'.Tasks
            /\ db'.Tasks[id].title = db.Tasks[id].title
            /\ db'.Tasks[id].description = db.Tasks[id].description
            /\ db'.Tasks[id].due_date = db.Tasks[id].due_date
            /\ db'.Tasks[id].location = db.Tasks[id].location
            /\ TagNamesOf(db', id) = TagNamesOf(db, id)]_vars

\* the response a failed store operation of create ends with
CreateStorageFailure == Response(500, "Create failed", 0)

\* C3: a create whose title is empty or missing changes nothing in the store and
\* is answered with a failure other than the generic storage failure.
C3_CreateValidationError ==
  [][(req'.op = "POST" /\ ops' = ops + 1 /\ ~Truthy(req'.body.title)) =>
       /\ db' = db
       /\ res'.status # 200
       /\ res' # CreateStorageFailure]_vars

\* C4: after a successful update with a tag-name list, the task is associated
\* with exactly the names of the list, each of them a Tag row.
C4_UpdateReplacesTags ==
  (req.op = "PUT" /\ res.status = 200 /\ req.body.tags # NotArray) =>
    /\ TagNamesOf(db, req.id) = Range(req.body.tags)
    /\ \A n \in Range(req.body.tags) : Cardinality(TagFind(db, n)) = 1

\* task 1 was seeded with k and j; the update with [k, x] dropped j and created x
C4_Witness ==
  /\ req.op = "PUT" /\ res.status = 200 /\ req.id = 1
  /\ req.body.tags = <<TagA, TagB>>
  /\ TagNamesOf(db, 1) = {TagA, TagB}
  /\ TagC \notin TagNamesOf(db, 1)

\* C5: an unfiltered query right after a successful create with a non-empty title
\* returns the created task exactly once, its tags being the set of the names given.
C5_CreateThenQuery ==
  [][(/\ req.op = "POST" /\ res.status = 200 /\ Truthy(req.body.title)
      /\ req'.op = "QUERY" /\ ~Truthy(gql'.q) /\ ~Truthy(gql'.tag)) =>
       LET hits == {i \in 1..Len(gql'.tasks) : gql'.tasks[i].id = res.id}
           given == IF req.body.tags = NotArray THEN {} ELSE Range(req.body.tags)
       IN /\ Cardinality(hits) = 1
          /\ \A i \in hits :
               /\ Range(TagNames(gql'.tasks[i].tags)) = given
               /\ Len(gql'.tasks[i].tags) = Cardinality(given)]_vars

\* the task created with tags [x, x] comes back once, with the one tag x
C5_Witness ==
  /\ req.op = "QUERY" /\ ~Truthy(gql.q) /\ ~Truthy(gql.tag) /\ ops = 2
  /\ \E i \in 1..Len(gql.tasks) :
       /\ gql.tasks[i].id = 6
       /\ TagNames(gql.tasks[i].tags) = <<TagB>>
  /\ Cardinality({i \in 1..Len(gql.tasks) : gql.tasks[i].id = 6}) = 1

\* C6: whatever the interleaving, no two Tag rows have the same name, and a
\* request whose insert of a tag name was refused because another request had
\* inserted it is still answered with success.
C6_FindOrCreateRace ==
  /\ \A t, u \in db.Tags : t.name = u.name => t.id = u.id
  /\ \A p \in 1..NProcs :
       (procs[p].pc = "done" /\ procs[p].raced) => procs[p].res.status = 200

\* C7: an update of an id that no task has is answered Not found and changes
\* nothing in the store.
C7_UpdateNotFound ==
  [][(req'.op = "PUT" /\ ops' = ops + 1 /\ req'.id \notin DOMAIN db.Tasks) =>
       /\ res' = Response(404, "Not found", 0)
       /\ db' = db]_vars

\* an update naming the new tag x was answered 404 and no Tag x exists
C7_Witness ==
  /\ req.op = "PUT" /\ res.status = 404
  /\ TagB \in Range(req.body.tags)
  /\ TagFind(db, TagB) = {}
  /\ db = SeedDb

\* C8 as stated: once DELETE /tasks/:id is answered, no query returns that id.
C8_DeletedNeverReturned ==
  \A x \in deleted : \A q \in QueryTexts, tag \in QueryTags :
    x.id \notin ResultIds(TasksResolve(db, q, tag))

\* C8 amended: once DELETE /tasks/:id is answered for an id that had been given
\* to a task, no query returns that id.
C8_DeletedAssignedNeverReturned ==
  \A x \in deleted : \A q \in QueryTexts, tag \in QueryTags :
    x.id <= x.seqTask => x.id \notin ResultIds(TasksResolve(db, q, tag))

\* task 5, the newest, was deleted and the task created afterwards is task 6
C8_Witness ==
  /\ [id |-> 5, seqTask |-> 5] \in deleted
  /\ 6 \in ResultIds(TasksResolve(db, NULL, NULL))
  /\ 5 \notin ResultIds(TasksResolve(db, NULL, NULL))

\* C9: the status of every stored task is pending or completed.
C9_StatusEnum ==
  \A id \in DOMAIN db.Tasks : db.Tasks[id].status \in {"pending", "completed"}

\* C10: the title of every stored task is a non-empty string.
C10_TitleNonEmpty ==
  \A id \in DOMAIN db.Tasks : Truthy(db.Tasks[id].title)

\* C11: one tasks query issues at most 2 store statements, however many tasks it
\* returns and however many tags they have: the one Task.findAll, and none from
\* the tags resolver of any task.
C11_QueryRoundTrips ==
  req.op = "QUERY" =>
    /\ gql.roundTrips <= 2
    /\ gql.roundTrips = 1

\* a query returned six tasks or more, one with two tags and one with none
C11_Witness ==
  /\ req.op = "QUERY"
  /\ Len(gql.tasks) >= 6
  /\ \E i \in 1..Len(gql.tasks) : Len(gql.tasks[i].tags) = 2
  /\ \E i \in 1..Len(gql.tasks) : Len(gql.tasks[i].tags) = 0
  /\ gql.roundTrips = 1

\* the requests that wrote associations of task id: the updates of it and the
\* create that made it
Writers(id) == {p \in 1..NProcs : procs[p].op \in {"POST", "PUT"} /\ procs[p].id = id}

\* the updates of task id that went past findByPk
Updates(id) ==
  {p \in Writers(id) : procs[p].op = "PUT" /\ procs[p].pc \notin {"idle", "findByPk"}
                       /\ procs[p].res.status # 404}

\* C12 as stated: when two updates of the same task have run concurrently and both
\* are answered with success, the task is associated with exactly the names of
\* the one list or exactly the names of the other.
C12_ConcurrentUpdatesNoMixture ==
  \A p, q \in 1..NProcs :
    (/\ p # q
     /\ procs[p].op = "PUT" /\ procs[q].op = "PUT" /\ procs[p].id = procs[q].id
     /\ Writers(procs[p].id) = {p, q}
     /\ procs[p].pc = "done" /\ procs[q].pc = "done"
     /\ procs[p].res.status = 200 /\ procs[q].res.status = 200) =>
      \/ TagNamesOf(db, procs[p].id) = Range(procs[p].body.tags)
      \/ TagNamesOf(db, procs[p].id) = Range(procs[q].body.tags)

\* C12 amended: when the updates of a task that ran concurrently have all been
\* answered, the task is associated only with names of their lists (of one list,
\* or of a mixture of them), and with no tag it had before them.
C12_ConcurrentUpdatesWithinLists ==
  \A id \in DOMAIN SeedTasks :
    (/\ Cardinality(Updates(id)) >= 2
     /\ \A p \in Writers(id) : procs[p].pc = "done") =>
      TagNamesOf(db, id) \subseteq UNION {Range(procs[p].body.tags) : p \in Updates(id)}

\* two updates of task 1 with the lists [k, x] and [x, j], both answered 200, left
\* it with k, x and j: the seeded j was cleared and added again
C12_Witness ==
  /\ \A p \in 1..2 : procs[p].op = "PUT" /\ procs[p].id = 1 /\ procs[p].pc = "done"
                     /\ procs[p].res.status = 200
  /\ procs[1].body.tags = <<TagA, TagB>>
  /\ procs[2].body.tags = <<TagB, TagC>>
  /\ TagNamesOf(db, 1) = {TagA, TagB, TagC}

====
